---------------------------- MODULE Spec2Model ----------------------------
(***************************************************************************)
(* Ability-score aggregation of DnD-Helper: the value sets                 *)
(* (BaseAbilities, AbilityBonus), CharacterStats and its add_bonus         *)
(* operation, from src/src/ability_score.py.                               *)
(*                                                                         *)
(* Python objects live in a heap (the sequence `sets`); a reference is the *)
(* index of the object, so two holders of the same index share the object. *)
(* A call that raises leaves no object behind and reports the exception    *)
(* in `outcome`; the caller then goes on (CallerProceeds).                 *)
(***************************************************************************)
EXTENDS Integers, Sequences, FiniteSets, TLC

VARIABLES
    sets,       \* heap of AbilitySet objects (BaseAbilities / AbilityBonus)
    stats,      \* the CharacterStats (and AbilityScores) objects built so far
    outcome,    \* the call that just returned or raised, "none" when idle
    calls,      \* the add_bonus calls of concurrent callers, frame by frame
    lock,       \* the writer lock callers may hold around add_bonus
    builder,    \* the CharacterBuilder
    character   \* the Character that build() returned

vars == <<sets, stats, outcome, calls, lock, builder, character>>

\* the state of concurrent callers, and of the character builder
callerVars == <<calls, lock>>
builderVars == <<builder, character>>

-----------------------------------------------------------------------------
(* Enumerations and constants of the program *)

MAX_SCORE == 20

BonusType == {"RACIAL", "FEAT", "LEVEL"}

\* Ability, in the iteration order of the enum
AbilityOrder ==
    <<"STRENGTH", "DEXTERITY", "CONSTITUTION", "INTELLIGENCE", "WISDOM", "CHARISMA">>

Ability == {AbilityOrder[i] : i \in 1..Len(AbilityOrder)}

\* Ability.field_name: the attribute of a value set an ability addresses
field_name ==
    [a \in Ability |->
        CASE a = "STRENGTH"     -> "strength"
          [] a = "DEXTERITY"    -> "dexterity"
          [] a = "CONSTITUTION" -> "constitution"
          [] a = "INTELLIGENCE" -> "intelligence"
          [] a = "WISDOM"       -> "wisdom"
          [] a = "CHARISMA"     -> "charisma"]

\* the six dataclass fields of AbilitySet
FieldNames == {"strength", "dexterity", "constitution", "wisdom", "intelligence", "charisma"}

\* the Python None passed for an omitted bonus set
None == 0

-----------------------------------------------------------------------------
(* Python values handed in by a caller: an int, or something that is not *)

IntVal(n) == [type |-> "int", v |-> n]
StrVal    == [type |-> "str", v |-> 0]
FloatVal  == [type |-> "float", v |-> 0]

isinstance_int(x) == x.type = "int"

-----------------------------------------------------------------------------
(* Bounds of the model *)

\* the smallest accepted base score a caller hands in for STRENGTH is
\* MAX_SCORE - MaxRoom: add_bonus sequences are then bounded by the cap itself
MaxRoom == 2

\* abilities a caller names in keyword arguments and in increments
InputAbilities == {"STRENGTH", "DEXTERITY"}

StrengthScores ==
    {IntVal(n) : n \in (MAX_SCORE - MaxRoom)..(MAX_SCORE + 1)} \cup {IntVal(-1), StrVal}

DexterityScores == {IntVal(MAX_SCORE - 1), IntVal(-5), FloatVal}

\* keyword arguments of a BaseAbilities(...) call; the other fields are given
\* fixed scores (constitution 7, wisdom 9, intelligence 10) or left to default
BaseKwargs ==
    {[strength |-> s, dexterity |-> d, constitution |-> IntVal(7),
      wisdom |-> IntVal(9), intelligence |-> IntVal(10)] :
        s \in StrengthScores, d \in DexterityScores}

\* keyword arguments of an AbilityBonus(...) call: none, or one field
BonusValues == {IntVal(1), IntVal(-1), StrVal}

BonusKwargs ==
    {<<>>} \cup {field_name[a] :> x : a \in InputAbilities, x \in BonusValues}

\* what a caller may pass as bonus_type: the enum members or something else
BonusTypeArgs == BonusType \cup {"invalid"}

\* amounts of an increments mapping
Amounts == {IntVal(0), IntVal(1), IntVal(2), StrVal}

\* increments: a dict, i.e. distinct keys in insertion order
Increments ==
    {<<>>}
    \cup {<<[ability |-> a, amount |-> x]>> : a \in InputAbilities, x \in Amounts}
    \cup {<<[ability |-> a, amount |-> x], [ability |-> b, amount |-> y]>> :
            <<a, b>> \in {p \in InputAbilities \X InputAbilities : p[1] # p[2]},
            <<x, y>> \in Amounts \X Amounts}

-----------------------------------------------------------------------------
(* AbilitySet, BaseAbilities, AbilityBonus *)

\* the dataclass-generated __init__: a field takes its keyword argument, or
\* the default 0
AbilitySet(kwargs) ==
    [f \in FieldNames |-> IF f \in DOMAIN kwargs THEN kwargs[f] ELSE IntVal(0)]

\* mutant: the loop does not reject a negative bonus value
RECURSIVE AbilitySet_post_init_accepts_negative(_, _, _)
AbilitySet_post_init_accepts_negative(self, is_base, i) ==
    IF i > Len(AbilityOrder) THEN "ok"
    ELSE LET value == self[field_name[AbilityOrder[i]]] IN
         IF ~isinstance_int(value) THEN "must be an integer"
         ELSE AbilitySet_post_init_accepts_negative(self, is_base, i + 1)

\* AbilitySet.__post_init__, the loop from its i-th ability on: the first
\* error it raises, or "ok"
RECURSIVE AbilitySet_post_init(_, _, _)
AbilitySet_post_init(self, is_base, i) ==
    IF i > Len(AbilityOrder) THEN "ok"
    ELSE LET value == self[field_name[AbilityOrder[i]]] IN
         IF ~isinstance_int(value) THEN "must be an integer"
         ELSE IF value.v < 0 /\ ~is_base THEN "cannot be negative for bonuses"
         ELSE AbilitySet_post_init(self, is_base, i + 1)

\* BaseAbilities.__post_init__
BaseAbilities_post_init(self) ==
    LET e == AbilitySet_post_init(self, TRUE, 1) IN
    IF e # "ok" THEN e
    ELSE IF \E a \in Ability : self[field_name[a]].v < 0 THEN "must be non-negative"
    ELSE "ok"

\* AbilityBonus.__post_init__
AbilityBonus_post_init(self, bonus_type) ==
    LET e == AbilitySet_post_init(self, FALSE, 1) IN
    IF e # "ok" THEN e
    ELSE IF bonus_type \notin BonusType THEN "Bonus type must be a BonusType enum value"
    ELSE "ok"

\* a constructed value set as it lives in the heap: every field is an int
ValueSet(cls, bonus_type, self) ==
    [cls |-> cls, bonus_type |-> bonus_type, val |-> [f \in FieldNames |-> self[f].v]]

\* AbilityBonus(bonus_type=t) with every field defaulted
DefaultBonus(t) == ValueSet("AbilityBonus", t, AbilitySet(<<>>))

getattr(o, f) == o.val[f]

setattr(o, f, x) == [o EXCEPT !.val[f] = x]

-----------------------------------------------------------------------------
(* CharacterStats *)

\* the heap after the objects `fresh` were allocated
Alloc(heap, fresh) == heap \o fresh

\* mutant: the feat slot is not checked
CharacterStats_init_unchecked_feat(heap, base, racial, feat, level) ==
    LET fresh_racial == IF racial = None THEN <<DefaultBonus("RACIAL")>> ELSE <<>>
        h1 == Alloc(heap, fresh_racial)
        racial_bonus == IF racial = None THEN Len(h1) ELSE racial
        fresh_feat == IF feat = None THEN <<DefaultBonus("FEAT")>> ELSE <<>>
        h2 == Alloc(h1, fresh_feat)
        feat_bonus == IF feat = None THEN Len(h2) ELSE feat
        fresh_level == IF level = None THEN <<DefaultBonus("LEVEL")>> ELSE <<>>
        h3 == Alloc(h2, fresh_level)
        level_bonus == IF level = None THEN Len(h3) ELSE level
        self == [base |-> base, racial |-> racial_bonus, feat |-> feat_bonus,
                 level |-> level_bonus,
                 score_components |-> <<base, racial_bonus, feat_bonus, level_bonus>>]
    IN  IF h3[racial_bonus].bonus_type # "RACIAL"
            THEN [err |-> "Racial bonus must have bonus_type=BonusType.RACIAL",
                  sets |-> heap, self |-> self]
        ELSE IF h3[level_bonus].bonus_type # "LEVEL"
            THEN [err |-> "Level bonus must have bonus_type=BonusType.LEVEL",
                  sets |-> heap, self |-> self]
        ELSE [err |-> "ok", sets |-> h3, self |-> self]

\* CharacterStats.__init__: an omitted bonus set is a fresh zero set of the
\* slot's type; the three tags are checked; the four references are kept.
\* When it raises, the new object and the defaults it made are unreachable.
CharacterStats_init(heap, base, racial, feat, level) ==
    LET fresh_racial == IF racial = None THEN <<DefaultBonus("RACIAL")>> ELSE <<>>
        h1 == Alloc(heap, fresh_racial)
        racial_bonus == IF racial = None THEN Len(h1) ELSE racial
        fresh_feat == IF feat = None THEN <<DefaultBonus("FEAT")>> ELSE <<>>
        h2 == Alloc(h1, fresh_feat)
        feat_bonus == IF feat = None THEN Len(h2) ELSE feat
        fresh_level == IF level = None THEN <<DefaultBonus("LEVEL")>> ELSE <<>>
        h3 == Alloc(h2, fresh_level)
        level_bonus == IF level = None THEN Len(h3) ELSE level
        self == [base |-> base, racial |-> racial_bonus, feat |-> feat_bonus,
                 level |-> level_bonus,
                 score_components |-> <<base, racial_bonus, feat_bonus, level_bonus>>]
    IN  IF h3[racial_bonus].bonus_type # "RACIAL"
            THEN [err |-> "Racial bonus must have bonus_type=BonusType.RACIAL",
                  sets |-> heap, self |-> self]
        ELSE IF h3[feat_bonus].bonus_type # "FEAT"
            THEN [err |-> "Feat bonus must have bonus_type=BonusType.FEAT",
                  sets |-> heap, self |-> self]
        ELSE IF h3[level_bonus].bonus_type # "LEVEL"
            THEN [err |-> "Level bonus must have bonus_type=BonusType.LEVEL",
                  sets |-> heap, self |-> self]
        ELSE [err |-> "ok", sets |-> h3, self |-> self]

\* sum(getattr(c, f) for c in components[i:])
RECURSIVE sum_components(_, _, _, _)
sum_components(heap, components, f, i) ==
    IF i > Len(components) THEN 0
    ELSE getattr(heap[components[i]], f) + sum_components(heap, components, f, i + 1)

\* mutant: the level bonus is left out of the sum
total_score_without_level(heap, self, ability) ==
    sum_components(heap, SubSeq(self.score_components, 1, 3), field_name[ability], 1)

\* CharacterStats.total_score
total_score(heap, self, ability) ==
    sum_components(heap, self.score_components, field_name[ability], 1)

\* mutant: integer division that truncates toward zero
math_floor_truncating(num, den) ==
    IF num >= 0 THEN num \div den ELSE -((-num) \div den)

\* math.floor(num / den) for den > 0: the quotient of the magnitudes, rounded
\* up when num / den is negative
math_floor(num, den) ==
    IF num >= 0 THEN num \div den ELSE -(((-num) + den - 1) \div den)

\* the modifier of a total: math.floor((total - 10) / 2)
modifier_of(total) == math_floor(total - 10, 2)

\* CharacterStats.modifier
modifier(heap, self, ability) == modifier_of(total_score(heap, self, ability))

\* the bonus_map of add_bonus: the three mutable categories and their sets
bonus_map(self) ==
    [t \in BonusType |->
        CASE t = "RACIAL" -> self.racial
          [] t = "FEAT"   -> self.feat
          [] t = "LEVEL"  -> self.level]

NoError == [kind |-> "ok", ability |-> "none", new_total |-> 0]

\* mutant: the cap is checked against the targeted set alone, not the total
RECURSIVE validate_increments_target_only(_, _, _, _, _)
validate_increments_target_only(heap, self, target, increments, i) ==
    IF i > Len(increments) THEN NoError
    ELSE LET ability == increments[i].ability
             amount == increments[i].amount
             new_total == getattr(heap[target], field_name[ability]) + amount.v
         IN  IF ~isinstance_int(amount) \/ amount.v <= 0
                 THEN [kind |-> "must be a positive integer", ability |-> ability,
                       new_total |-> 0]
             ELSE IF new_total > MAX_SCORE
                 THEN [kind |-> "would exceed MAX_SCORE", ability |-> ability,
                       new_total |-> new_total]
             ELSE validate_increments_target_only(heap, self, target, increments, i + 1)

\* mutant: the loop checks the amounts and never the cap
RECURSIVE validate_increments_without_cap(_, _, _, _, _)
validate_increments_without_cap(heap, self, target, increments, i) ==
    IF i > Len(increments) THEN NoError
    ELSE LET ability == increments[i].ability
             amount == increments[i].amount
         IN  IF ~isinstance_int(amount) \/ amount.v <= 0
                 THEN [kind |-> "must be a positive integer", ability |-> ability,
                       new_total |-> 0]
             ELSE validate_increments_without_cap(heap, self, target, increments, i + 1)

\* the "Validate increments" loop of add_bonus from its i-th entry on: the
\* first error it raises, or NoError
RECURSIVE validate_increments(_, _, _, _, _)
validate_increments(heap, self, target, increments, i) ==
    IF i > Len(increments) THEN NoError
    ELSE LET ability == increments[i].ability
             amount == increments[i].amount
             new_total == total_score(heap, self, ability) + amount.v
         IN  IF ~isinstance_int(amount) \/ amount.v <= 0
                 THEN [kind |-> "must be a positive integer", ability |-> ability,
                       new_total |-> 0]
             ELSE IF new_total > MAX_SCORE
                 THEN [kind |-> "would exceed MAX_SCORE", ability |-> ability,
                       new_total |-> new_total]
             ELSE validate_increments(heap, self, target, increments, i + 1)

\* mutant: the field is overwritten with the amount
RECURSIVE apply_increments_overwriting(_, _, _, _)
apply_increments_overwriting(heap, target, increments, i) ==
    IF i > Len(increments) THEN heap
    ELSE LET f == field_name[increments[i].ability]
             amount == increments[i].amount
         IN  apply_increments_overwriting(
                 [heap EXCEPT ![target] = setattr(heap[target], f, amount.v)],
                 target, increments, i + 1)

\* mutant: the amount is added to every field of the targeted set
RECURSIVE apply_increments_every_field(_, _, _, _)
apply_increments_every_field(heap, target, increments, i) ==
    IF i > Len(increments) THEN heap
    ELSE LET amount == increments[i].amount
         IN  apply_increments_every_field(
                 [heap EXCEPT ![target].val = [f \in FieldNames |-> @[f] + amount.v]],
                 target, increments, i + 1)

\* mutant: the amount is taken from the field
RECURSIVE apply_increments_subtracting(_, _, _, _)
apply_increments_subtracting(heap, target, increments, i) ==
    IF i > Len(increments) THEN heap
    ELSE LET f == field_name[increments[i].ability]
             amount == increments[i].amount
             current_value == getattr(heap[target], f)
         IN  apply_increments_subtracting(
                 [heap EXCEPT ![target] = setattr(heap[target], f, current_value - amount.v)],
                 target, increments, i + 1)

\* the "Apply increments" loop of add_bonus from its i-th entry on
RECURSIVE apply_increments(_, _, _, _)
apply_increments(heap, target, increments, i) ==
    IF i > Len(increments) THEN heap
    ELSE LET f == field_name[increments[i].ability]
             amount == increments[i].amount
             current_value == getattr(heap[target], f)
         IN  apply_increments(
                 [heap EXCEPT ![target] = setattr(heap[target], f, current_value + amount.v)],
                 target, increments, i + 1)

\* an add_bonus that validates and applies entry by entry in one loop
RECURSIVE validate_and_apply(_, _, _, _, _)
validate_and_apply(heap, self, target, increments, i) ==
    IF i > Len(increments) THEN [err |-> NoError, sets |-> heap]
    ELSE LET e == validate_increments(heap, self, target, <<increments[i]>>, 1) IN
         IF e.kind # "ok" THEN [err |-> e, sets |-> heap]
         ELSE validate_and_apply(apply_increments(heap, target, <<increments[i]>>, 1),
                                 self, target, increments, i + 1)

\* mutant: no validate-all-then-apply-all, each entry is applied once it passed
add_bonus_entry_by_entry(heap, self, bonus_type, increments) ==
    IF bonus_type \notin DOMAIN bonus_map(self)
        THEN [err |-> [kind |-> "Invalid bonus type", ability |-> "none", new_total |-> 0],
              sets |-> heap]
    ELSE validate_and_apply(heap, self, bonus_map(self)[bonus_type], increments, 1)

\* mutant: a bonus type that is not in the map lands on the racial set
add_bonus_default_category(heap, self, bonus_type, increments) ==
    LET target == IF bonus_type \in DOMAIN bonus_map(self)
                  THEN bonus_map(self)[bonus_type] ELSE self.racial
        e == validate_increments(heap, self, target, increments, 1)
    IN  IF e.kind # "ok" THEN [err |-> e, sets |-> heap]
        ELSE [err |-> NoError, sets |-> apply_increments(heap, target, increments, 1)]

\* CharacterStats.add_bonus: the exception it raises (or NoError) and the heap
\* it leaves
add_bonus(heap, self, bonus_type, increments) ==
    IF bonus_type \notin DOMAIN bonus_map(self)
        THEN [err |-> [kind |-> "Invalid bonus type", ability |-> "none", new_total |-> 0],
              sets |-> heap]
    ELSE LET target == bonus_map(self)[bonus_type]
             e == validate_increments(heap, self, target, increments, 1)
         IN  IF e.kind # "ok" THEN [err |-> e, sets |-> heap]
             ELSE [err |-> NoError, sets |-> apply_increments(heap, target, increments, 1)]

-----------------------------------------------------------------------------
(* The earlier module, src/ability_score.py: CharacterAbility and its four *)
(* subclasses, AbilityScores and its increment_attribute operation. Its    *)
(* objects live in the same heap, under their class names.                 *)

MAX_TOTAL == 20

ComponentScore == {"RACIAL_BONUS", "FEAT_BONUS", "LEVEL_BONUS"}

\* Ability.attr_name
attr_name ==
    [a \in Ability |->
        CASE a = "STRENGTH"     -> "strength"
          [] a = "DEXTERITY"    -> "dexterity"
          [] a = "CONSTITUTION" -> "constitution"
          [] a = "INTELLIGENCE" -> "intelligence"
          [] a = "WISDOM"       -> "wisdom"
          [] a = "CHARISMA"     -> "charisma"]

\* the subclasses of CharacterAbility
CharacterAbility == {"ScoreBase", "RacialBonus", "FeatBonus", "LevelBonus"}

\* ScoreBase.__init__: every argument an int >= 0
ScoreBase_init(args) ==
    IF \A f \in FieldNames : isinstance_int(args[f]) /\ args[f].v >= 0
        THEN "ok"
    ELSE "All attributes must be non-negative integers"

\* RacialBonus / FeatBonus / LevelBonus.__init__: every argument an int
ComponentBonus_init(args) ==
    IF \A f \in FieldNames : isinstance_int(args[f]) THEN "ok"
    ELSE "All bonuses must be integers"

\* RacialBonus(), FeatBonus() or LevelBonus() with every field defaulted
DefaultComponent(cls) == ValueSet(cls, "none", AbilitySet(<<>>))

\* AbilityScores.__init__: `racial or RacialBonus()` and so on; the objects
\* are truthy, so only None is replaced. No check is made.
AbilityScores_init(heap, base, racial, feat, level) ==
    LET h1 == Alloc(heap, IF racial = None THEN <<DefaultComponent("RacialBonus")>> ELSE <<>>)
        racial_bonus == IF racial = None THEN Len(h1) ELSE racial
        h2 == Alloc(h1, IF feat = None THEN <<DefaultComponent("FeatBonus")>> ELSE <<>>)
        feat_bonus == IF feat = None THEN Len(h2) ELSE feat
        h3 == Alloc(h2, IF level = None THEN <<DefaultComponent("LevelBonus")>> ELSE <<>>)
        level_bonus == IF level = None THEN Len(h3) ELSE level
    IN  [sets |-> h3,
         self |-> [score_base |-> base, racial_bonus |-> racial_bonus,
                   feat_bonus |-> feat_bonus, level_bonus |-> level_bonus]]

\* sum(getattr(c, f) for c in components[i:] if isinstance(c, CharacterAbility))
RECURSIVE sum_character_abilities(_, _, _, _)
sum_character_abilities(heap, components, f, i) ==
    IF i > Len(components) THEN 0
    ELSE (IF heap[components[i]].cls \in CharacterAbility
          THEN getattr(heap[components[i]], f) ELSE 0)
         + sum_character_abilities(heap, components, f, i + 1)

\* AbilityScores._sum_scores
sum_scores(heap, self, attribute) ==
    sum_character_abilities(
        heap, <<self.score_base, self.racial_bonus, self.feat_bonus, self.level_bonus>>,
        attr_name[attribute], 1)

\* AbilityScores.strength_mod ... charisma_mod: math.floor((value - 10) / 2)
ability_mod(heap, self, attribute) == math_floor(sum_scores(heap, self, attribute) - 10, 2)

\* AbilityScores.constitution_mod
constitution_mod(heap, self) == ability_mod(heap, self, "CONSTITUTION")

\* the component_map of increment_attribute
component_map(self) ==
    [c \in ComponentScore |->
        CASE c = "RACIAL_BONUS" -> self.racial_bonus
          [] c = "FEAT_BONUS"   -> self.feat_bonus
          [] c = "LEVEL_BONUS"  -> self.level_bonus]

\* mutant: an amount of 0 passes the first loop
RECURSIVE check_amounts_accepting_zero(_, _)
check_amounts_accepting_zero(increments, i) ==
    IF i > Len(increments) THEN NoError
    ELSE LET amount == increments[i].amount IN
         IF ~isinstance_int(amount)
             THEN [kind |-> "must be an integer", ability |-> increments[i].ability,
                   new_total |-> 0]
         ELSE IF amount.v < 0
             THEN [kind |-> "must be positive", ability |-> increments[i].ability,
                   new_total |-> 0]
         ELSE check_amounts_accepting_zero(increments, i + 1)

\* the first loop of increment_attribute from its i-th entry on: each amount
\* is an int, and positive
RECURSIVE check_amounts(_, _)
check_amounts(increments, i) ==
    IF i > Len(increments) THEN NoError
    ELSE LET amount == increments[i].amount IN
         IF ~isinstance_int(amount)
             THEN [kind |-> "must be an integer", ability |-> increments[i].ability,
                   new_total |-> 0]
         ELSE IF amount.v <= 0
             THEN [kind |-> "must be positive", ability |-> increments[i].ability,
                   new_total |-> 0]
         ELSE check_amounts(increments, i + 1)

\* the second loop of increment_attribute from its i-th entry on: no new total
\* is above MAX_TOTAL
RECURSIVE check_totals(_, _, _, _)
check_totals(heap, self, increments, i) ==
    IF i > Len(increments) THEN NoError
    ELSE LET ability == increments[i].ability
             current_total == sum_scores(heap, self, ability)
             new_total == current_total + increments[i].amount.v
         IN  IF new_total > MAX_TOTAL
                 THEN [kind |-> "would exceed MAX_ATTRIBUTE", ability |-> ability,
                       new_total |-> new_total]
             ELSE check_totals(heap, self, increments, i + 1)

\* the third loop of increment_attribute from its i-th entry on
RECURSIVE increment_fields(_, _, _, _)
increment_fields(heap, target, increments, i) ==
    IF i > Len(increments) THEN heap
    ELSE LET f == attr_name[increments[i].ability]
             current_value == getattr(heap[target], f)
         IN  increment_fields(
                 [heap EXCEPT ![target] =
                     setattr(heap[target], f, current_value + increments[i].amount.v)],
                 target, increments, i + 1)

\* AbilityScores.increment_attribute: the exception it raises (or NoError) and
\* the heap it leaves
increment_attribute(heap, self, component, increments) ==
    IF component \notin DOMAIN component_map(self)
        THEN [err |-> [kind |-> "Invalid component", ability |-> "none", new_total |-> 0],
              sets |-> heap]
    ELSE LET target == component_map(self)[component]
             e1 == check_amounts(increments, 1)
             e2 == check_totals(heap, self, increments, 1)
         IN  IF e1.kind # "ok" THEN [err |-> e1, sets |-> heap]
             ELSE IF e2.kind # "ok" THEN [err |-> e2, sets |-> heap]
             ELSE [err |-> NoError, sets |-> increment_fields(heap, target, increments, 1)]

-----------------------------------------------------------------------------
(* The state machine: a caller building value sets and CharacterStats      *)
(* objects and calling add_bonus                                           *)

Idle == [op |-> "none"]

\* no concurrent caller, no lock in use
NoCallers ==
    /\ calls = <<>>
    /\ lock = [used |-> FALSE, holder |-> None]

\* a name that holds no object
NoObject == [cls |-> "NoneType"]

\* no CharacterBuilder made
NoBuilder ==
    /\ builder = NoObject
    /\ character = NoObject

Init ==
    /\ sets = <<>>
    /\ stats = <<>>
    /\ outcome = Idle
    /\ NoCallers
    /\ NoBuilder

Refs(cls) == {r \in 1..Len(sets) : sets[r].cls = cls}

\* BaseAbilities(**kwargs); the caller builds one
NewBaseAbilities ==
    /\ outcome = Idle
    /\ Refs("BaseAbilities") = {}
    /\ \E kwargs \in BaseKwargs :
        LET self == AbilitySet(kwargs)
            e == BaseAbilities_post_init(self)
        IN  /\ sets' = IF e = "ok" THEN Append(sets, ValueSet("BaseAbilities", "none", self))
                       ELSE sets
            /\ outcome' = [op |-> "BaseAbilities", err |-> e, kwargs |-> kwargs, pre |-> sets]
    /\ UNCHANGED <<stats, callerVars, builderVars>>

\* AbilityBonus(bonus_type=..., **kwargs); the caller builds one, after its
\* BaseAbilities and before any CharacterStats (a heap index is only the
\* name of an object, so the order of the two allocations is immaterial)
NewAbilityBonus ==
    /\ outcome = Idle
    /\ Refs("BaseAbilities") # {}
    /\ Refs("AbilityBonus") = {}
    /\ \E bonus_type \in BonusTypeArgs, kwargs \in BonusKwargs :
        LET self == AbilitySet(kwargs)
            e == AbilityBonus_post_init(self, bonus_type)
        IN  /\ sets' = IF e = "ok" THEN Append(sets, ValueSet("AbilityBonus", bonus_type, self))
                       ELSE sets
            /\ outcome' = [op |-> "AbilityBonus", err |-> e, kwargs |-> kwargs,
                           bonus_type |-> bonus_type, pre |-> sets]
    /\ UNCHANGED <<stats, callerVars, builderVars>>

\* CharacterStats(base, racial, feat, level), each bonus argument None or a
\* reference to an AbilityBonus; at most `limit` objects are built
NewCharacterStats(limit) ==
    /\ outcome = Idle
    /\ Len(stats) < limit
    /\ \E base \in Refs("BaseAbilities") :
       \E racial, feat, level \in Refs("AbilityBonus") \cup {None} :
        LET r == CharacterStats_init(sets, base, racial, feat, level) IN
        /\ sets' = r.sets
        /\ stats' = IF r.err = "ok" THEN Append(stats, r.self) ELSE stats
        /\ outcome' = [op |-> "CharacterStats", err |-> r.err,
                       args |-> [base |-> base, racial |-> racial, feat |-> feat,
                                 level |-> level],
                       self |-> r.self, pre |-> sets]
    /\ UNCHANGED <<callerVars, builderVars>>

\* stats[s].add_bonus(bonus_type, increments), the arguments drawn from
\* `types` and `batches`
AddBonusOf(types, batches) ==
    /\ outcome = Idle
    /\ \E s \in 1..Len(stats), bonus_type \in types, increments \in batches :
        LET r == add_bonus(sets, stats[s], bonus_type, increments) IN
        /\ sets' = r.sets
        /\ outcome' = [op |-> "add_bonus", err |-> r.err.kind, raised |-> r.err, self |-> s,
                       bonus_type |-> bonus_type, increments |-> increments, pre |-> sets]
    /\ UNCHANGED <<stats, callerVars, builderVars>>

\* the caller takes the return or catches the ValueError and goes on
CallerProceeds ==
    /\ outcome # Idle
    /\ outcome' = Idle
    /\ UNCHANGED <<sets, stats, callerVars, builderVars>>

\* one CharacterStats
NewOneCharacterStats == NewCharacterStats(1)

AddBonus == AddBonusOf(BonusTypeArgs, Increments)

Next ==
    \/ NewBaseAbilities
    \/ NewAbilityBonus
    \/ NewOneCharacterStats
    \/ AddBonus
    \/ CallerProceeds

Spec == Init /\ [][Next]_vars

-----------------------------------------------------------------------------
(* Two CharacterStats that a caller builds from the value sets it holds:   *)
(* a BaseAbilities (strength 18, dexterity 19) and a racial AbilityBonus.  *)
(* The second may also be given the sets the first one exposes through its *)
(* racial_bonus / feat_bonus / level_bonus properties.                     *)

SharedBase ==
    ValueSet("BaseAbilities", "none",
             AbilitySet([strength |-> IntVal(MAX_SCORE - MaxRoom),
                         dexterity |-> IntVal(MAX_SCORE - 1)]))

InitShared ==
    /\ sets = <<SharedBase, DefaultBonus("RACIAL")>>
    /\ stats = <<>>
    /\ outcome = Idle
    /\ NoCallers
    /\ NoBuilder

SharedIncrements ==
    {<<[ability |-> a, amount |-> x]>> : a \in InputAbilities, x \in {IntVal(1), IntVal(2)}}

NewSharedCharacterStats == NewCharacterStats(2)

AddBonusShared == AddBonusOf(BonusType, SharedIncrements)

NextShared ==
    \/ NewSharedCharacterStats
    \/ AddBonusShared
    \/ CallerProceeds

SpecShared == InitShared /\ [][NextShared]_vars

-----------------------------------------------------------------------------
(* Two callers share one CharacterStats (strength 18, dexterity 19) and    *)
(* each makes one add_bonus call. A call is a frame that advances through  *)
(* the statements of add_bonus: the check of one entry in the validation   *)
(* loop, and in the apply loop the read of a field (getattr) and its write *)
(* (setattr). Either every caller holds a writer lock from the start of    *)
(* its call to its end (lock.used), or none does and the frames interleave *)
(* statement by statement.                                                 *)

Callers == {1, 2}

NotCalled == [pc |-> "idle"]

\* the CharacterStats the callers share, built from SharedBase alone
SharedStats == CharacterStats_init(<<SharedBase>>, 1, None, None, None)

InitCallers ==
    /\ sets = SharedStats.sets
    /\ stats = <<SharedStats.self>>
    /\ outcome = Idle
    /\ calls = [t \in Callers |-> NotCalled]
    /\ lock \in {[used |-> u, holder |-> None] : u \in BOOLEAN}
    /\ NoBuilder

\* increments of a concurrent caller: one or two entries, amounts 1 and 2
CallerIncrements ==
    {inc \in Increments :
        /\ inc # <<>>
        /\ \A i \in 1..Len(inc) : inc[i].amount \in {IntVal(1), IntVal(2)}}

\* the set add_bonus resolved for the frame of caller t
TargetOf(t) == bonus_map(stats[1])[calls[t].bonus_type]

\* the lock after the call of caller t ended
Released(t) == IF lock.holder = t THEN [lock EXCEPT !.holder = None] ELSE lock

\* caller t calls stats[1].add_bonus(bonus_type, increments): the category is
\* looked up; with the lock in use the caller first waits for it
Enter(t) ==
    /\ calls[t].pc = "idle"
    /\ lock.used => lock.holder = None
    /\ \E bonus_type \in BonusType, increments \in CallerIncrements :
        /\ calls' = [calls EXCEPT ![t] =
                        IF bonus_type \notin DOMAIN bonus_map(stats[1])
                        THEN [pc |-> "raised", bonus_type |-> bonus_type,
                              increments |-> increments, i |-> 1, current_value |-> 0]
                        ELSE [pc |-> "validate", bonus_type |-> bonus_type,
                              increments |-> increments, i |-> 1, current_value |-> 0]]
        /\ lock' = IF lock.used /\ bonus_type \in DOMAIN bonus_map(stats[1])
                   THEN [lock EXCEPT !.holder = t] ELSE lock
    /\ UNCHANGED <<sets, stats, outcome, builderVars>>

\* one iteration of the validation loop: the i-th entry is checked against the
\* totals as they are now; the loop ends after the last entry
ValidateEntry(t) ==
    /\ calls[t].pc = "validate"
    /\ LET c == calls[t]
           e == validate_increments(sets, stats[1], TargetOf(t), <<c.increments[c.i]>>, 1)
       IN  IF e.kind # "ok"
               THEN /\ calls' = [calls EXCEPT ![t].pc = "raised"]
                    /\ lock' = Released(t)
           ELSE IF c.i < Len(c.increments)
               THEN /\ calls' = [calls EXCEPT ![t].i = c.i + 1]
                    /\ UNCHANGED lock
           ELSE /\ calls' = [calls EXCEPT ![t].pc = "read", ![t].i = 1]
                /\ UNCHANGED lock
    /\ UNCHANGED <<sets, stats, outcome, builderVars>>

\* current_value = getattr(target, ability.field_name)
ReadField(t) ==
    /\ calls[t].pc = "read"
    /\ LET c == calls[t]
           f == field_name[c.increments[c.i].ability]
       IN  calls' = [calls EXCEPT ![t].pc = "write",
                                  ![t].current_value = getattr(sets[TargetOf(t)], f)]
    /\ UNCHANGED <<sets, stats, outcome, lock, builderVars>>

\* setattr(target, ability.field_name, current_value + amount); the call
\* returns after the last entry
WriteField(t) ==
    /\ calls[t].pc = "write"
    /\ LET c == calls[t]
           f == field_name[c.increments[c.i].ability]
           amount == c.increments[c.i].amount
       IN  /\ sets' = [sets EXCEPT ![TargetOf(t)] =
                          setattr(sets[TargetOf(t)], f, c.current_value + amount.v)]
           /\ IF c.i < Len(c.increments)
                  THEN /\ calls' = [calls EXCEPT ![t].pc = "read", ![t].i = c.i + 1]
                       /\ UNCHANGED lock
              ELSE /\ calls' = [calls EXCEPT ![t].pc = "returned"]
                   /\ lock' = Released(t)
    /\ UNCHANGED <<stats, outcome, builderVars>>

CallerEnters == \E t \in Callers : Enter(t)
CallerValidates == \E t \in Callers : ValidateEntry(t)
CallerReads == \E t \in Callers : ReadField(t)
CallerWrites == \E t \in Callers : WriteField(t)

NextCallers ==
    \/ CallerEnters
    \/ CallerValidates
    \/ CallerReads
    \/ CallerWrites

SpecCallers == InitCallers /\ [][NextCallers]_vars

-----------------------------------------------------------------------------
(* The two versions side by side: a CharacterStats (stats[1]) and an       *)
(* AbilityScores (stats[2]) built from equal component values, and each    *)
(* call made on both with the same category and the same increments.       *)

\* the component values both objects are built from: a base and a racial set
VersionBaseArgs ==
    {[strength |-> IntVal(s), dexterity |-> IntVal(MAX_SCORE - 1),
      constitution |-> IntVal(7), wisdom |-> IntVal(9), intelligence |-> IntVal(10),
      charisma |-> IntVal(0)] : s \in (MAX_SCORE - MaxRoom)..MAX_SCORE}

VersionRacialArgs == {<<>>, "strength" :> IntVal(1)}

\* a category of add_bonus and the same category of increment_attribute, or
\* something that is neither
CategoryPairs ==
    {<<"RACIAL", "RACIAL_BONUS">>, <<"FEAT", "FEAT_BONUS">>, <<"LEVEL", "LEVEL_BONUS">>,
     <<"invalid", "invalid">>}

\* CharacterStats(BaseAbilities(**b), racial=AbilityBonus(RACIAL, **r)) and
\* AbilityScores(ScoreBase(**b), racial=RacialBonus(**r))
BothVersions(b, r) ==
    LET n == CharacterStats_init(
                 <<ValueSet("BaseAbilities", "none", AbilitySet(b)),
                   ValueSet("AbilityBonus", "RACIAL", AbilitySet(r))>>,
                 1, 2, None, None)
        h == Alloc(n.sets, <<ValueSet("ScoreBase", "none", AbilitySet(b)),
                             ValueSet("RacialBonus", "none", AbilitySet(r))>>)
        o == AbilityScores_init(h, Len(h) - 1, Len(h), None, None)
    IN  [sets |-> o.sets, stats |-> <<n.self, o.self>>]

InitVersions ==
    /\ \E b \in VersionBaseArgs, r \in VersionRacialArgs :
        /\ BaseAbilities_post_init(AbilitySet(b)) = "ok"
        /\ AbilityBonus_post_init(AbilitySet(r), "RACIAL") = "ok"
        /\ ScoreBase_init(AbilitySet(b)) = "ok"
        /\ ComponentBonus_init(AbilitySet(r)) = "ok"
        /\ sets = BothVersions(b, r).sets
        /\ stats = BothVersions(b, r).stats
    /\ outcome = Idle
    /\ NoCallers
    /\ NoBuilder

\* stats[1].add_bonus(bonus_type, increments) and
\* stats[2].increment_attribute(component, increments)
IncrementBoth ==
    /\ outcome = Idle
    /\ \E pair \in CategoryPairs, increments \in Increments :
        LET n == add_bonus(sets, stats[1], pair[1], increments)
            o == increment_attribute(n.sets, stats[2], pair[2], increments)
        IN  /\ sets' = o.sets
            /\ outcome' = [op |-> "both versions", new |-> n.err, old |-> o.err,
                           bonus_type |-> pair[1], component |-> pair[2],
                           increments |-> increments, pre |-> sets]
    /\ UNCHANGED <<stats, callerVars, builderVars>>

NextVersions ==
    \/ IncrementBoth
    \/ CallerProceeds

SpecVersions == InitVersions /\ [][NextVersions]_vars

-----------------------------------------------------------------------------
(* A sequence of add_bonus calls on one CharacterStats that starts close   *)
(* to the cap in every ability (strength 18, dexterity 19, the others 20), *)
(* with the number of calls that returned after a non-empty batch          *)
(* counted from the start.                                                 *)

CappedBase ==
    ValueSet("BaseAbilities", "none",
             [f \in FieldNames |->
                 IF f = "strength" THEN IntVal(MAX_SCORE - MaxRoom)
                 ELSE IF f = "dexterity" THEN IntVal(MAX_SCORE - 1)
                 ELSE IntVal(MAX_SCORE)])

CappedStats == CharacterStats_init(<<CappedBase>>, 1, None, None, None)

InitSequence ==
    /\ sets = CappedStats.sets
    /\ stats = <<CappedStats.self>>
    /\ outcome = [op |-> "none", returned_nonempty |-> 0]
    /\ NoCallers
    /\ NoBuilder

\* the batches of the sequence: empty, one entry, or two entries of amount 0
\* or 1
SequenceIncrements ==
    {inc \in Increments :
        Len(inc) = 2 => \A i \in 1..2 : inc[i].amount \in {IntVal(0), IntVal(1)}}

\* stats[1].add_bonus(bonus_type, increments), one call after the other
AddBonusInSequence ==
    /\ \E bonus_type \in BonusTypeArgs, increments \in SequenceIncrements :
        LET r == add_bonus(sets, stats[1], bonus_type, increments) IN
        /\ sets' = r.sets
        /\ outcome' = [op |-> "add_bonus", err |-> r.err.kind, raised |-> r.err, self |-> 1,
                       bonus_type |-> bonus_type, increments |-> increments, pre |-> sets,
                       returned_nonempty |->
                           IF r.err.kind = "ok" /\ increments # <<>>
                           THEN outcome.returned_nonempty + 1
                           ELSE outcome.returned_nonempty]
    /\ UNCHANGED <<stats, callerVars, builderVars>>

NextSequence == AddBonusInSequence

SpecSequence == InitSequence /\ [][NextSequence]_vars

-----------------------------------------------------------------------------
(* src/main.py: CharacterClass, ClassWithLevel, Character and its hit      *)
(* points, and CharacterBuilder                                            *)

\* CharacterClass.hit_dice
hit_dice ==
    [c \in {"ARTIFICER", "BARBARIAN", "BARD", "CLERIC", "DRUID", "FIGHTER", "MONK",
            "PALADIN", "RANGER", "ROGUE", "SORCERER", "WARLOCK", "WIZARD"} |->
        CASE c = "BARBARIAN" -> 12
          [] c \in {"FIGHTER", "PALADIN", "RANGER"} -> 10
          [] c \in {"SORCERER", "WIZARD"} -> 6
          [] OTHER -> 8]

CharacterClass == DOMAIN hit_dice

\* SavingThrowProficiencies.get_proficiencies
get_proficiencies(character_class) ==
    CASE character_class = "ARTIFICER" -> <<"CONSTITUTION", "INTELLIGENCE">>
      [] character_class = "BARBARIAN" -> <<"STRENGTH", "CONSTITUTION">>
      [] character_class = "BARD"      -> <<"DEXTERITY", "CHARISMA">>
      [] character_class = "CLERIC"    -> <<"WISDOM", "CHARISMA">>
      [] character_class = "DRUID"     -> <<"INTELLIGENCE", "WISDOM">>
      [] character_class = "FIGHTER"   -> <<"STRENGTH", "CONSTITUTION">>
      [] character_class = "MONK"      -> <<"STRENGTH", "DEXTERITY">>
      [] character_class = "PALADIN"   -> <<"WISDOM", "CHARISMA">>
      [] character_class = "RANGER"    -> <<"STRENGTH", "DEXTERITY">>
      [] character_class = "ROGUE"     -> <<"DEXTERITY", "INTELLIGENCE">>
      [] character_class = "SORCERER"  -> <<"CONSTITUTION", "CHARISMA">>
      [] character_class = "WARLOCK"   -> <<"WISDOM", "INTELLIGENCE">>
      [] character_class = "WIZARD"    -> <<"INTELLIGENCE", "WISDOM">>
      [] OTHER -> <<>>

\* the highest total level of a character
MAX_TOTAL_LEVEL == 20

ClassWithLevel(level, class_) == [level |-> level, class_ |-> class_]

\* sum(cl.level for cl in classes[i:])
RECURSIVE sum_levels(_, _)
sum_levels(classes, i) ==
    IF i > Len(classes) THEN 0 ELSE classes[i].level + sum_levels(classes, i + 1)

\* a str
NameVal(s) == [cls |-> "str", s |-> s]

\* Character.__init__, the checks of name, classes, ability and total level
\* (an ability is None or a reference to an AbilityScores)
Character_init(name, classes, ability) ==
    IF name.cls # "str" \/ name.s = "" THEN "Name must be a non-empty string"
    ELSE IF classes = <<>> \/ \E i \in 1..Len(classes) : classes[i].level <= 0
        THEN "Classes must be a non-empty list of ClassLevel with positive levels"
    ELSE IF ability = None THEN "Ability must be a CharacterAbility instance"
    ELSE IF sum_levels(classes, 1) > MAX_TOTAL_LEVEL
        THEN "Total character level cannot exceed 20"
    ELSE "ok"

\* Character._calc_hp, in halves of a hit point: die / 2 is a float division,
\* so the value is kept as twice the float it stands for
calc_hp(die, quantity, first_level, con_mod) ==
    LET die_value == IF first_level THEN 2 * die ELSE die + 2
    IN  (die_value + 2 * con_mod) * quantity

\* mutant: first_level is never cleared, every entry counts the full die
RECURSIVE total_hp_loop_always_first(_, _, _, _)
total_hp_loop_always_first(classes, con_mod, i, first_level) ==
    IF i > Len(classes) THEN 0
    ELSE calc_hp(hit_dice[classes[i].class_], classes[i].level, first_level, con_mod)
         + total_hp_loop_always_first(classes, con_mod, i + 1, first_level)

\* the loop of total_hp from the i-th entry of the class list on, in halves
RECURSIVE total_hp_loop(_, _, _, _)
total_hp_loop(classes, con_mod, i, first_level) ==
    IF i > Len(classes) THEN 0
    ELSE calc_hp(hit_dice[classes[i].class_], classes[i].level, first_level, con_mod)
         + total_hp_loop(classes, con_mod, i + 1, FALSE)

\* int(x) of the float x = halves / 2: truncation toward zero
int_of_halves(halves) == IF halves >= 0 THEN halves \div 2 ELSE -((-halves) \div 2)

\* Character.total_hp, for the class list and the AbilityScores it holds
total_hp(heap, classes, ability) ==
    int_of_halves(total_hp_loop(classes, constitution_mod(heap, ability), 1, TRUE))

\* CharacterBuilder.__init__
CharacterBuilder_init ==
    [name |-> NoObject, classes |-> <<>>, ability |-> None, first_class_level |-> TRUE,
     save_throws |-> <<>>]

\* CharacterBuilder.with_name
with_name(self, name) ==
    IF name.cls # "str" \/ name.s = ""
        THEN [err |-> "Name must be a non-empty string", self |-> self]
    ELSE [err |-> "ok", self |-> [self EXCEPT !.name = name]]

\* CharacterBuilder.with_ability
with_ability(self, ability) ==
    IF ability = None
        THEN [err |-> "Ability must be a CharacterAbility instance", self |-> self]
    ELSE [err |-> "ok", self |-> [self EXCEPT !.ability = ability]]

\* mutant: the first call appends the whole level as one entry
add_class_unsplit(self, level, class_) ==
    IF ~isinstance_int(level) \/ level.v <= 0
        THEN [err |-> "Level must be a positive integer", self |-> self]
    ELSE IF class_ \notin CharacterClass
        THEN [err |-> "Class must be a CharacterClass instance", self |-> self]
    ELSE IF sum_levels(self.classes, 1) + level.v > MAX_TOTAL_LEVEL
        THEN [err |-> "Total character level cannot exceed 20", self |-> self]
    ELSE IF self.first_class_level
        THEN [err |-> "ok",
              self |-> [self EXCEPT
                          !.save_throws = @ \o get_proficiencies(class_),
                          !.classes = Append(@, ClassWithLevel(level.v, class_)),
                          !.first_class_level = FALSE]]
    ELSE [err |-> "ok",
          self |-> [self EXCEPT !.classes = Append(@, ClassWithLevel(level.v, class_))]]

\* CharacterBuilder.add_class: the error it raises (or "ok") and the builder
\* it leaves
add_class(self, level, class_) ==
    IF ~isinstance_int(level) \/ level.v <= 0
        THEN [err |-> "Level must be a positive integer", self |-> self]
    ELSE IF class_ \notin CharacterClass
        THEN [err |-> "Class must be a CharacterClass instance", self |-> self]
    ELSE IF sum_levels(self.classes, 1) + level.v > MAX_TOTAL_LEVEL
        THEN [err |-> "Total character level cannot exceed 20", self |-> self]
    ELSE IF self.first_class_level
        THEN LET first == [self EXCEPT
                              !.save_throws = @ \o get_proficiencies(class_),
                              !.classes = Append(@, ClassWithLevel(1, class_)),
                              !.first_class_level = FALSE]
                 rest == level.v - 1
             IN  IF rest < 1 THEN [err |-> "ok", self |-> first]
                 ELSE [err |-> "ok",
                       self |-> [first EXCEPT
                                   !.classes = Append(@, ClassWithLevel(rest, class_))]]
    ELSE [err |-> "ok",
          self |-> [self EXCEPT !.classes = Append(@, ClassWithLevel(level.v, class_))]]

\* CharacterBuilder.build: the error it raises, or that of Character.__init__
build(self) ==
    IF self.name = NoObject THEN "Name must be set"
    ELSE IF self.classes = <<>> THEN "At least one class must be set"
    ELSE IF self.ability = None THEN "Ability must be set"
    ELSE Character_init(self.name, self.classes, self.ability)

-----------------------------------------------------------------------------
(* A caller drives one CharacterBuilder: with_name, add_class,             *)
(* with_ability, build, and then raises the constitution of the            *)
(* AbilityScores the Character holds. build hands the Character the        *)
(* builder's own class list, not a copy, so the Character's classes are    *)
(* read through the builder. The sum of the levels of the add_class calls  *)
(* that returned is carried along in `outcome`.                            *)

\* the class list may grow while it has fewer than MaxEntries entries
MaxEntries == 4

\* the constitution scores an AbilityScores is built with (modifiers -2, 4)
ConstitutionScores == {7, 18}

LevelArgs == {IntVal(0), IntVal(1), IntVal(2), IntVal(MAX_TOTAL_LEVEL - 1), FloatVal}

ClassArgs == {"BARBARIAN", "WIZARD", "not a class"}

NameArgs == {NameVal("Kael"), NameVal("")}

\* AbilityScores(ScoreBase(16, 13, c, 12, 8, 10))
BuilderScores(c) ==
    AbilityScores_init(
        <<ValueSet("ScoreBase", "none",
                   [strength |-> IntVal(16), dexterity |-> IntVal(13),
                    constitution |-> IntVal(c), wisdom |-> IntVal(12),
                    intelligence |-> IntVal(8), charisma |-> IntVal(10)])>>,
        1, None, None, None)

InitBuilder ==
    /\ \E c \in ConstitutionScores :
        /\ sets = BuilderScores(c).sets
        /\ stats = <<BuilderScores(c).self>>
    /\ outcome = [op |-> "none", accepted |-> 0]
    /\ NoCallers
    /\ builder = CharacterBuilder_init
    /\ character = NoObject

BuilderIdle == outcome.op = "none"

\* builder.with_name(name)
WithName ==
    /\ BuilderIdle
    /\ builder.name = NoObject
    /\ \E name \in NameArgs :
        LET r == with_name(builder, name) IN
        /\ builder' = r.self
        /\ outcome' = [op |-> "with_name", accepted |-> outcome.accepted, err |-> r.err,
                       pre |-> builder]
    /\ UNCHANGED <<sets, stats, callerVars, character>>

\* builder.with_ability(ability), ability the AbilityScores or None
WithAbility ==
    /\ BuilderIdle
    /\ builder.ability = None
    /\ \E ability \in {1, None} :
        LET r == with_ability(builder, ability) IN
        /\ builder' = r.self
        /\ outcome' = [op |-> "with_ability", accepted |-> outcome.accepted, err |-> r.err,
                       pre |-> builder]
    /\ UNCHANGED <<sets, stats, callerVars, character>>

\* builder.add_class(level, class_)
AddClass ==
    /\ BuilderIdle
    /\ Len(builder.classes) < MaxEntries
    /\ \E level \in LevelArgs, class_ \in ClassArgs :
        LET r == add_class(builder, level, class_) IN
        /\ builder' = r.self
        /\ outcome' = [op |-> "add_class", err |-> r.err, level |-> level, class_ |-> class_,
                       pre |-> builder,
                       accepted |-> IF r.err = "ok" THEN outcome.accepted + level.v
                                    ELSE outcome.accepted]
    /\ UNCHANGED <<sets, stats, callerVars, character>>

\* character = builder.build()
Build ==
    /\ BuilderIdle
    /\ character = NoObject
    /\ LET e == build(builder) IN
        /\ character' = IF e = "ok"
                        THEN [cls |-> "Character", name |-> builder.name,
                              ability |-> builder.ability]
                        ELSE NoObject
        /\ outcome' = [op |-> "build", err |-> e, pre |-> builder,
                       accepted |-> outcome.accepted]
    /\ UNCHANGED <<sets, stats, callerVars, builder>>

\* character.ability.increment_attribute(ComponentScore.LEVEL_BONUS,
\*                                       {Ability.CONSTITUTION: 6})
RaiseConstitution ==
    /\ BuilderIdle
    /\ character # NoObject
    /\ LET r == increment_attribute(sets, stats[character.ability], "LEVEL_BONUS",
                                    <<[ability |-> "CONSTITUTION", amount |-> IntVal(6)]>>)
       IN  /\ sets' = r.sets
           /\ outcome' = [op |-> "increment_attribute", err |-> r.err.kind, pre |-> builder,
                          accepted |-> outcome.accepted]
    /\ UNCHANGED <<stats, callerVars, builderVars>>

\* the caller takes the return or catches the ValueError and goes on
BuilderCallerProceeds ==
    /\ ~BuilderIdle
    /\ outcome' = [op |-> "none", accepted |-> outcome.accepted]
    /\ UNCHANGED <<sets, stats, callerVars, builderVars>>

NextBuilder ==
    \/ WithName
    \/ WithAbility
    \/ AddClass
    \/ Build
    \/ RaiseConstitution
    \/ BuilderCallerProceeds

SpecBuilder == InitBuilder /\ [][NextBuilder]_vars

-----------------------------------------------------------------------------
(* Properties *)

StatsRefs == 1..Len(stats)

\* the four value sets of a CharacterStats, through its four properties
OwnSets(self) == {self.base, self.racial, self.feat, self.level}

\* base.a + racial.a + feat.a + level.a, read field by field
FourLayerSum(heap, self, a) ==
    heap[self.base].val[field_name[a]] + heap[self.racial].val[field_name[a]]
    + heap[self.feat].val[field_name[a]] + heap[self.level].val[field_name[a]]

AddBonusReturned == outcome.op = "add_bonus" /\ outcome.err = "ok"

AddBonusRaised == outcome.op = "add_bonus" /\ outcome.err # "ok"

PositiveInt(x) == x.type = "int" /\ x.v > 0

\* C1: a failed add_bonus leaves each of the 24 fields of the base, racial,
\* feat and level sets of the CharacterStats as it was before the call,
\* whatever the batch and wherever the offending entry stands in it.
C1_FailedAddBonusChangesNothing ==
    AddBonusRaised =>
        \A c \in OwnSets(stats[outcome.self]) : \A f \in FieldNames :
            sets[c].val[f] = outcome.pre[c].val[f]

\* a batch whose first entry is valid and fits and whose second entry exceeds
\* the cap was rejected
C1_Witness ==
    /\ AddBonusRaised
    /\ outcome.err = "would exceed MAX_SCORE"
    /\ Len(outcome.increments) = 2
    /\ PositiveInt(outcome.increments[1].amount)
    /\ FourLayerSum(outcome.pre, stats[outcome.self], outcome.increments[1].ability)
         + outcome.increments[1].amount.v <= MAX_SCORE
    /\ outcome.raised.ability = outcome.increments[2].ability

\* C2: the 20-point cap as an invariant: in every state reached by building a
\* CharacterStats from accepted value sets and calling add_bonus, every
\* total_score is at most 20.
C2_CapIsInvariant ==
    \A s \in StatsRefs : \A a \in Ability : total_score(sets, stats[s], a) <= MAX_SCORE

\* C3: total_score(a) is base.a + racial.a + feat.a + level.a in every state,
\* an omitted bonus set counting 0, and a failed add_bonus leaves every total
\* as it was.
C3_TotalIsSumOfFourLayers ==
    /\ \A s \in StatsRefs : \A a \in Ability :
        total_score(sets, stats[s], a) = FourLayerSum(sets, stats[s], a)
    /\ (outcome.op = "CharacterStats" /\ outcome.err = "ok") =>
        \A a \in Ability :
            total_score(sets, outcome.self, a) =
                sets[outcome.args.base].val[field_name[a]]
                + (IF outcome.args.racial = None THEN 0
                   ELSE sets[outcome.args.racial].val[field_name[a]])
                + (IF outcome.args.feat = None THEN 0
                   ELSE sets[outcome.args.feat].val[field_name[a]])
                + (IF outcome.args.level = None THEN 0
                   ELSE sets[outcome.args.level].val[field_name[a]])
    /\ AddBonusRaised =>
        \A a \in Ability :
            total_score(sets, stats[outcome.self], a)
                = total_score(outcome.pre, stats[outcome.self], a)

\* an add_bonus returned on a CharacterStats whose racial and level sets both
\* contribute to strength
C3_Witness ==
    /\ AddBonusReturned
    /\ sets[stats[outcome.self].racial].val["strength"] > 0
    /\ sets[stats[outcome.self].level].val["strength"] > 0

\* C4: modifier(a) is floor((total - 10) / 2), rounding toward negative
\* infinity: 7, 9, 10, 20 give -2, -1, 0, 5, and an odd total below 10 gives
\* one less than the truncated quotient.
C4_ModifierIsFloor ==
    /\ modifier_of(7) = -2 /\ modifier_of(9) = -1
    /\ modifier_of(10) = 0 /\ modifier_of(20) = 5
    /\ \A t \in 0..MAX_SCORE :
        LET m == modifier_of(t)
        IN  /\ 2 * m <= t - 10
            /\ t - 10 <= 2 * m + 1
            /\ (t < 10 /\ t % 2 = 1) => m = -((10 - t) \div 2) - 1
    /\ \A s \in StatsRefs : \A a \in Ability :
        LET t == FourLayerSum(sets, stats[s], a)
            m == modifier(sets, stats[s], a)
        IN  /\ 2 * m <= t - 10
            /\ t - 10 <= 2 * m + 1

\* a CharacterStats with totals 7, 9, 10 and 20
C4_Witness ==
    \E s \in StatsRefs :
        /\ total_score(sets, stats[s], "CONSTITUTION") = 7
        /\ modifier(sets, stats[s], "CONSTITUTION") = -2
        /\ total_score(sets, stats[s], "WISDOM") = 9
        /\ modifier(sets, stats[s], "WISDOM") = -1
        /\ total_score(sets, stats[s], "INTELLIGENCE") = 10
        /\ modifier(sets, stats[s], "INTELLIGENCE") = 0
        /\ total_score(sets, stats[s], "STRENGTH") = 20
        /\ modifier(sets, stats[s], "STRENGTH") = 5

\* C5: a successful add_bonus raises the field of each named ability, in the
\* set of the targeted category, by its amount, and so the total of each
\* named ability.
C5_SuccessRaisesEachNamedField ==
    AddBonusReturned =>
        LET self == stats[outcome.self]
            target == CASE outcome.bonus_type = "RACIAL" -> self.racial
                        [] outcome.bonus_type = "FEAT"   -> self.feat
                        [] outcome.bonus_type = "LEVEL"  -> self.level
        IN  \A i \in 1..Len(outcome.increments) :
                LET a == outcome.increments[i].ability
                    amount == outcome.increments[i].amount.v
                IN  /\ sets[target].val[field_name[a]]
                         = outcome.pre[target].val[field_name[a]] + amount
                    /\ total_score(sets, self, a) = total_score(outcome.pre, self, a) + amount

\* add_bonus(LEVEL, {DEXTERITY: 1, STRENGTH: 1}) returned on a level set that
\* already held strength 1, and took it to 2 and the strength total to 20
C5_Witness ==
    /\ AddBonusReturned
    /\ outcome.bonus_type = "LEVEL"
    /\ outcome.increments = <<[ability |-> "DEXTERITY", amount |-> IntVal(1)],
                              [ability |-> "STRENGTH", amount |-> IntVal(1)]>>
    /\ outcome.pre[stats[outcome.self].level].val["strength"] = 1
    /\ sets[stats[outcome.self].level].val["strength"] = 2
    /\ total_score(sets, stats[outcome.self], "STRENGTH") = MAX_SCORE

\* C6: with a valid category, add_bonus succeeds exactly when every amount is
\* a positive integer and every pre-call total over the four layers plus its
\* amount is at most 20; when every amount is a positive integer and one
\* prospective total is above 20 the error is the cap error.
C6_SucceedsIffWithinCap ==
    (outcome.op = "add_bonus" /\ outcome.bonus_type \in BonusType) =>
        LET self == stats[outcome.self]
            inc == outcome.increments
            AllPositive == \A i \in 1..Len(inc) : PositiveInt(inc[i].amount)
            AllFit == \A i \in 1..Len(inc) :
                FourLayerSum(outcome.pre, self, inc[i].ability) + inc[i].amount.v <= MAX_SCORE
        IN  /\ (outcome.err = "ok") <=> (AllPositive /\ AllFit)
            /\ (AllPositive /\ ~AllFit) => outcome.err = "would exceed MAX_SCORE"

\* a FEAT increment that the feat set alone could take was rejected at a
\* prospective total of 21 because of the racial bonus already held
C6_Witness ==
    /\ AddBonusRaised
    /\ outcome.bonus_type = "FEAT"
    /\ outcome.raised.kind = "would exceed MAX_SCORE"
    /\ outcome.raised.new_total = MAX_SCORE + 1
    /\ LET self == stats[outcome.self]
           f == field_name[outcome.raised.ability]
       IN  /\ sets[self.racial].val[f] > 0
           /\ FourLayerSum(sets, self, outcome.raised.ability) - sets[self.racial].val[f]
                + outcome.increments[1].amount.v <= MAX_SCORE
           /\ Len(outcome.increments) = 1

\* C7: add_bonus with a category that is none of RACIAL, FEAT, LEVEL fails
\* with the unknown-category error whatever the increments hold, and changes
\* no field.
C7_UnknownCategoryFails ==
    (outcome.op = "add_bonus" /\ outcome.bonus_type \notin {"RACIAL", "FEAT", "LEVEL"}) =>
        /\ outcome.err = "Invalid bonus type"
        /\ sets = outcome.pre

\* an unknown category was rejected although its increments were valid and
\* would have fitted
C7_Witness ==
    /\ AddBonusRaised
    /\ outcome.bonus_type = "invalid"
    /\ Len(outcome.increments) = 2
    /\ \A i \in 1..2 :
        /\ PositiveInt(outcome.increments[i].amount)
        /\ FourLayerSum(sets, stats[outcome.self], outcome.increments[i].ability)
             + outcome.increments[i].amount.v <= MAX_SCORE

\* the tag of the set passed for a slot, "none" when the slot was omitted
PassedTag(heap, ref) == IF ref = None THEN "none" ELSE heap[ref].bonus_type

\* C8: building a CharacterStats fails when a supplied bonus set's tag differs
\* from the slot it is passed to, and the racial, feat and level slots of
\* every CharacterStats hold sets tagged RACIAL, FEAT and LEVEL.
C8_SlotTagsMatch ==
    /\ outcome.op = "CharacterStats" =>
        ((\/ PassedTag(outcome.pre, outcome.args.racial) \notin {"none", "RACIAL"}
          \/ PassedTag(outcome.pre, outcome.args.feat) \notin {"none", "FEAT"}
          \/ PassedTag(outcome.pre, outcome.args.level) \notin {"none", "LEVEL"})
            => outcome.err # "ok")
    /\ \A s \in StatsRefs :
        /\ sets[stats[s].racial].bonus_type = "RACIAL"
        /\ sets[stats[s].feat].bonus_type = "FEAT"
        /\ sets[stats[s].level].bonus_type = "LEVEL"

\* a set not tagged FEAT passed as the feat argument was refused
C8_Witness ==
    /\ outcome.op = "CharacterStats"
    /\ outcome.args.racial = None
    /\ outcome.args.feat # None
    /\ sets[outcome.args.feat].bonus_type # "FEAT"
    /\ outcome.err = "Feat bonus must have bonus_type=BonusType.FEAT"

NegativeArgument(kwargs) ==
    \E f \in DOMAIN kwargs : kwargs[f].type = "int" /\ kwargs[f].v < 0

\* C9: BaseAbilities and AbilityBonus refuse a negative field, and every
\* field of the four value sets of a CharacterStats is >= 0 in every state.
C9_NonNegative ==
    /\ (outcome.op \in {"BaseAbilities", "AbilityBonus"} /\ NegativeArgument(outcome.kwargs))
        => (outcome.err # "ok" /\ sets = outcome.pre)
    /\ \A s \in StatsRefs : \A c \in OwnSets(stats[s]) : \A f \in FieldNames :
        sets[c].val[f] >= 0

\* an AbilityBonus with a negative field was refused for that reason
C9_Witness ==
    /\ outcome.op = "AbilityBonus"
    /\ outcome.bonus_type \in BonusType
    /\ NegativeArgument(outcome.kwargs)
    /\ outcome.err = "cannot be negative for bonuses"

\* C10: a CharacterStats owns its four value sets: an add_bonus on another
\* CharacterStats changes none of its fields and none of its totals.
C10_ExclusiveOwnership ==
    outcome.op = "add_bonus" =>
        \A s \in StatsRefs \ {outcome.self} :
            /\ \A c \in OwnSets(stats[s]) : sets[c] = outcome.pre[c]
            /\ \A a \in Ability :
                total_score(sets, stats[s], a) = total_score(outcome.pre, stats[s], a)

\* the fields the increments name
NamedFields(increments) ==
    {field_name[increments[i].ability] : i \in 1..Len(increments)}

\* C11: add_bonus never changes the base set; a successful add_bonus leaves
\* every field of the two non-targeted bonus sets as it was, and every field
\* of the targeted set whose ability the increments do not name; a call with
\* empty increments succeeds and changes nothing.
C11_AddBonusFrame ==
    outcome.op = "add_bonus" =>
        LET self == stats[outcome.self] IN
        /\ sets[self.base] = outcome.pre[self.base]
        /\ outcome.err = "ok" =>
            LET target == bonus_map(self)[outcome.bonus_type] IN
            /\ \A c \in {self.racial, self.feat, self.level} \ {target} :
                \A f \in FieldNames : sets[c].val[f] = outcome.pre[c].val[f]
            /\ \A f \in FieldNames \ NamedFields(outcome.increments) :
                sets[target].val[f] = outcome.pre[target].val[f]
        /\ (outcome.increments = <<>> /\ outcome.bonus_type \in BonusType) =>
            (outcome.err = "ok" /\ sets = outcome.pre)

\* add_bonus(LEVEL, {DEXTERITY: 1}) returned on a CharacterStats whose level
\* set held strength 1 and whose racial set held a bonus, and both are kept
C11_Witness ==
    /\ AddBonusReturned
    /\ outcome.bonus_type = "LEVEL"
    /\ outcome.increments = <<[ability |-> "DEXTERITY", amount |-> IntVal(1)]>>
    /\ outcome.pre[stats[outcome.self].level].val["strength"] = 1
    /\ sets[stats[outcome.self].level].val["strength"] = 1
    /\ \E f \in FieldNames : sets[stats[outcome.self].racial].val[f] > 0

\* the i-th entry of the last add_bonus exceeds the cap on the pre-call totals
ExceedsCap(i) ==
    /\ PositiveInt(outcome.increments[i].amount)
    /\ FourLayerSum(outcome.pre, stats[outcome.self], outcome.increments[i].ability)
         + outcome.increments[i].amount.v > MAX_SCORE

\* C12: the positive-integer check of every increment is done before any cap
\* check: an add_bonus with a valid category whose batch holds both an
\* increment that is not a positive integer and an increment that exceeds the
\* cap raises the invalid-increment error, in whatever order the mapping
\* holds the two.
C12_InvalidIncrementBeforeCap ==
    (/\ outcome.op = "add_bonus"
     /\ outcome.bonus_type \in BonusType
     /\ \E i \in 1..Len(outcome.increments) : ~PositiveInt(outcome.increments[i].amount)
     /\ \E j \in 1..Len(outcome.increments) : ExceedsCap(j))
        => outcome.err = "must be a positive integer"

\* what the returned calls of the callers in ts added to field f of set c
RECURSIVE AddedBy(_, _, _)
AddedBy(ts, c, f) ==
    IF ts = {} THEN 0
    ELSE LET t == CHOOSE x \in ts : TRUE
             inc == calls[t].increments
             own == IF calls[t].pc = "returned" /\ TargetOf(t) = c
                    THEN {i \in 1..Len(inc) : field_name[inc[i].ability] = f}
                    ELSE {}
         IN  (IF own = {} THEN 0 ELSE inc[CHOOSE i \in own : TRUE].amount.v)
             + AddedBy(ts \ {t}, c, f)

AllCallsEnded == \A t \in Callers : calls[t].pc \in {"returned", "raised"}

\* a total is above 20
CapExceeded == \E a \in Ability : total_score(sets, stats[1], a) > MAX_SCORE

\* both calls ended and a field is not its initial value plus the increments
\* of the calls that returned
IncrementLost ==
    /\ AllCallsEnded
    /\ \E c \in OwnSets(stats[1]) : \E f \in FieldNames :
        sets[c].val[f] # SharedStats.sets[c].val[f] + AddedBy(Callers, c, f)

\* C13: two add_bonus calls on one CharacterStats whose totals start at most
\* 20: when each call runs under the writer lock, every total stays at most
\* 20 in every state and, once both calls ended, every field is its initial
\* value plus the increments of the calls that returned; a total above 20 or
\* a lost increment occurs only when the calls run without the lock, and it
\* does occur then (C13_Witness).
C13_SerializedCallsKeepCap ==
    (CapExceeded \/ IncrementLost) => ~lock.used

\* without the lock both calls returned, and a total is above 20 and a field
\* holds less than its initial value plus the increments of the two calls
C13_Witness ==
    /\ ~lock.used
    /\ \A t \in Callers : calls[t].pc = "returned"
    /\ CapExceeded
    /\ IncrementLost
    /\ \E c \in OwnSets(stats[1]) : \E f \in FieldNames :
        sets[c].val[f] < SharedStats.sets[c].val[f] + AddedBy(Callers, c, f)

\* under the lock two calls returned, on different sets, naming one ability
C13_SerializedWitness ==
    /\ lock.used
    /\ \A t \in Callers : calls[t].pc = "returned"
    /\ TargetOf(1) # TargetOf(2)
    /\ \E i \in 1..Len(calls[1].increments), j \in 1..Len(calls[2].increments) :
        calls[1].increments[i].ability = calls[2].increments[j].ability

\* the fields of the CharacterStats and of the AbilityScores, slot by slot
SlotPairs(new, old) ==
    {<<new.base, old.score_base>>, <<new.racial, old.racial_bonus>>,
     <<new.feat, old.feat_bonus>>, <<new.level, old.level_bonus>>}

\* C14: AbilityScores.increment_attribute and CharacterStats.add_bonus, from
\* equal non-negative component values and given the same category and the
\* same increments, either both fail and leave every field as it was or both
\* succeed; through any sequence of such calls the fields, the totals and the
\* modifiers of the two objects are equal.
C14_VersionsAgree ==
    /\ \A p \in SlotPairs(stats[1], stats[2]) : sets[p[1]].val = sets[p[2]].val
    /\ \A a \in Ability :
        /\ total_score(sets, stats[1], a) = sum_scores(sets, stats[2], a)
        /\ modifier(sets, stats[1], a) = ability_mod(sets, stats[2], a)
    /\ outcome.op = "both versions" =>
        /\ (outcome.new.kind = "ok") <=> (outcome.old.kind = "ok")
        /\ outcome.new.kind # "ok" => sets = outcome.pre

\* both versions took a batch of two entries in the level category, and
\* the strength total of both is now 20
C14_Witness ==
    /\ outcome.op = "both versions"
    /\ outcome.new.kind = "ok" /\ outcome.old.kind = "ok"
    /\ outcome.bonus_type = "LEVEL"
    /\ Len(outcome.increments) = 2
    /\ sets # outcome.pre
    /\ total_score(sets, stats[1], "STRENGTH") = MAX_SCORE
    /\ sum_scores(sets, stats[2], "STRENGTH") = MAX_TOTAL

\* both versions refused a batch, each for another reason
C14_DifferentErrors ==
    /\ outcome.op = "both versions"
    /\ outcome.new.kind = "would exceed MAX_SCORE"
    /\ outcome.old.kind = "must be positive"

\* the sum of the six totals
RECURSIVE SumOfTotals(_, _, _)
SumOfTotals(heap, self, i) ==
    IF i > Len(AbilityOrder) THEN 0
    ELSE FourLayerSum(heap, self, AbilityOrder[i]) + SumOfTotals(heap, self, i + 1)

\* no bonus field and no total is lower after the last add_bonus than before
NonDecreasing ==
    outcome.op = "add_bonus" =>
        /\ \A c \in OwnSets(stats[1]) : \A f \in FieldNames :
            sets[c].val[f] >= outcome.pre[c].val[f]
        /\ \A a \in Ability :
            total_score(sets, stats[1], a) >= total_score(outcome.pre, stats[1], a)

\* the calls that returned after a non-empty batch are at most 120 minus the
\* sum of the six totals the sequence started from
ReturnedCallsBounded ==
    outcome.returned_nonempty <= 6 * MAX_SCORE - SumOfTotals(CappedStats.sets, stats[1], 1)

\* the abilities the last add_bonus named whose total was 20 before the call
NamedAtCap ==
    {outcome.increments[i].ability : i \in
        {j \in 1..Len(outcome.increments) :
            FourLayerSum(outcome.pre, stats[1], outcome.increments[j].ability) = MAX_SCORE}}

\* C15 as stated: bonus fields and totals never decrease; an add_bonus, in any
\* of the three categories, that names an ability whose total is 20 fails
\* with the cap error and the total stays 20; at most 120 minus the sum of the
\* six initial totals calls with a non-empty batch return.
C15_AtCapFailsWithCapError ==
    /\ NonDecreasing
    /\ ReturnedCallsBounded
    /\ (outcome.op = "add_bonus" /\ outcome.bonus_type \in BonusType) =>
        \A a \in NamedAtCap :
            /\ outcome.err = "would exceed MAX_SCORE"
            /\ total_score(sets, stats[1], a) = MAX_SCORE

\* C15, amended: bonus fields and totals never decrease; an add_bonus, in any
\* category, that names an ability whose total is 20 fails and the total
\* stays 20, and the error is the cap error when the category is one of the
\* three and every amount of the batch is a positive integer; at most 120
\* minus the sum of the six initial totals calls with a non-empty batch
\* return.
C15_AtCapFails ==
    /\ NonDecreasing
    /\ ReturnedCallsBounded
    /\ outcome.op = "add_bonus" =>
        \A a \in NamedAtCap :
            /\ outcome.err # "ok"
            /\ total_score(sets, stats[1], a) = MAX_SCORE
            /\ (/\ outcome.bonus_type \in BonusType
                /\ \A i \in 1..Len(outcome.increments) :
                    PositiveInt(outcome.increments[i].amount))
                => outcome.err = "would exceed MAX_SCORE"

\* every ability is at 20 after as many returned calls as the initial totals
\* left room for, and a FEAT increment of strength, which the racial and
\* level sets took to 20, is refused with the cap error
C15_Witness ==
    /\ AddBonusRaised
    /\ outcome.err = "would exceed MAX_SCORE"
    /\ outcome.bonus_type = "FEAT"
    /\ outcome.increments = <<[ability |-> "STRENGTH", amount |-> IntVal(1)]>>
    /\ sets[stats[1].feat].val["strength"] = 0
    /\ SumOfTotals(sets, stats[1], 1) = 6 * MAX_SCORE
    /\ outcome.returned_nonempty
         = 6 * MAX_SCORE - SumOfTotals(CappedStats.sets, stats[1], 1)

\* the class list of the Character: the list object of the builder
ClassesOf(c) == builder.classes

\* C16: after any sequence of add_class calls the levels of the class list
\* sum to at most 20 and to the sum of the levels of the add_class calls
\* that returned; the first entry of a non-empty list has level 1; an
\* add_class with a level that is not a positive int, with something that is
\* no CharacterClass, or taking the total above 20 is rejected, and a rejected
\* add_class leaves the class list and the saving-throw list as they were.
C16_ClassListLevels ==
    /\ sum_levels(builder.classes, 1) <= MAX_TOTAL_LEVEL
    /\ sum_levels(builder.classes, 1) = outcome.accepted
    /\ builder.classes # <<>> => builder.classes[1].level = 1
    /\ outcome.op = "add_class" =>
        /\ (\/ ~PositiveInt(outcome.level)
            \/ outcome.class_ \notin CharacterClass
            \/ sum_levels(outcome.pre.classes, 1) + outcome.level.v > MAX_TOTAL_LEVEL)
             => outcome.err # "ok"
        /\ outcome.err # "ok" =>
            /\ builder.classes = outcome.pre.classes
            /\ builder.save_throws = outcome.pre.save_throws

\* add_class(19, ...) was rejected for the total on a list that two earlier
\* calls, the first of them with level 2, had filled with three entries
C16_Witness ==
    /\ outcome.op = "add_class"
    /\ outcome.err = "Total character level cannot exceed 20"
    /\ outcome.level = IntVal(MAX_TOTAL_LEVEL - 1)
    /\ Len(builder.classes) = 3
    /\ builder.classes[2].level = 1
    /\ outcome.accepted = sum_levels(builder.classes, 1)
    /\ Len(builder.save_throws) = 2

\* the levels the class list gives to class c
RECURSIVE LevelsIn(_, _, _)
LevelsIn(classes, c, i) ==
    IF i > Len(classes) THEN 0
    ELSE (IF classes[i].class_ = c THEN classes[i].level ELSE 0) + LevelsIn(classes, c, i + 1)

\* (d/2 + 1 + con_mod) for each of n levels of hit die d; the hit dice are even
RECURSIVE LaterLevels(_, _, _)
LaterLevels(cs, classes, con_mod) ==
    IF cs = {} THEN 0
    ELSE LET c == CHOOSE x \in cs : TRUE
             n == LevelsIn(classes, c, 1) - (IF c = classes[1].class_ THEN 1 ELSE 0)
         IN  n * (hit_dice[c] \div 2 + 1 + con_mod) + LaterLevels(cs \ {c}, classes, con_mod)

\* C17: the total_hp of a Character that build returned is the full hit die
\* of the first class for one level and die/2 + 1 for every other level, each
\* plus the current constitution modifier, whatever the number of add_class
\* calls that gave a class its levels.
C17_TotalHp ==
    character # NoObject =>
        LET classes == ClassesOf(character)
            con_mod == constitution_mod(sets, stats[character.ability])
        IN  total_hp(sets, classes, stats[character.ability])
                = (hit_dice[classes[1].class_] + con_mod)
                  + LaterLevels(CharacterClass, classes, con_mod)

\* a Character of four barbarian levels from two add_class(2, BARBARIAN)
\* calls and a wizard level, after its constitution was raised from 7 to 13:
\* 13 + 3 * 8 + 5 = 42 hit points
C17_Witness ==
    /\ character # NoObject
    /\ outcome.op = "increment_attribute" /\ outcome.err = "ok"
    /\ sum_scores(sets, stats[character.ability], "CONSTITUTION") = 13
    /\ ClassesOf(character) = <<ClassWithLevel(1, "BARBARIAN"), ClassWithLevel(1, "BARBARIAN"),
                                ClassWithLevel(2, "BARBARIAN"), ClassWithLevel(1, "WIZARD")>>
    /\ total_hp(sets, ClassesOf(character), stats[character.ability]) = 42

=============================================================================
